---- MODULE Spec2Model ----
(***************************************************************************)
(* MCP stdio protocol engine of the Lanbu repository: the read-dispatch-   *)
(* write loop of keytool-mcp-server.py, uber-apk-signer-mcp-server.py and  *)
(* downloader.py, the enhanced wrapper loops of enhanced_mcp_server.py,    *)
(* the process executor execute_command_with_diagnostics and the client    *)
(* StdioMCPClient of tests/mcp_client.py.                                  *)
(***************************************************************************)
EXTENDS Integers, Sequences, FiniteSets, TLC

VARIABLES
    server,       \* which server script runs
    initialized,  \* main(): local flag
    req_id,       \* main(): local req_id, "unbound" before its first assignment
    pc,           \* "running", "exited" (EOF), "crashed" (uncaught exception) or
                  \* "blocked" (inside a call that does not return)
    dirs,         \* file system: how many of the MaxDepth nested parent directories exist
    last,         \* the line handled last, with everything handling it did
    req_origin,   \* history: what assigned req_id, "none", a "request" or an "other" object
    ex,           \* execute_command_with_diagnostics: one call in progress
    request_id,     \* StdioMCPClient: self.request_id
    client_initialized, \* StdioMCPClient: self.initialized
    response_queue, \* StdioMCPClient: self.response_queue, a FIFO of decoded messages
    stdout_pipe,    \* lines the server has written to its stdout, not yet read
    produced,       \* history: how many lines the server has written
    stdin_wire,     \* what has been written to process.stdin, in order
    stdin_lock,     \* the thread inside a write to process.stdin, or "free"
    th,             \* the caller threads: where each is and its locals
    calls,          \* history: how many method calls the threads have started
    enqueued,       \* history: the messages the reader has put on response_queue
    returned,       \* history: the messages get_response calls have returned
    issued,         \* history: the ids send_request / send_json calls have returned
    io              \* history: the reads and writes of a server loop, in order

serverVars == <<server, initialized, req_id, pc, dirs, last, req_origin, ex>>

clientVars == <<request_id, client_initialized, response_queue, stdout_pipe, produced,
                stdin_wire, stdin_lock, th, calls, enqueued, returned, issued>>

vars == <<serverVars, clientVars, io>>

(***************************************************************************)
(* Bounds of the model.                                                    *)
(***************************************************************************)
MaxDepth == 2

\* how many lines the server writes to the client in one run
MaxInbound == 2

\* how many method calls the client threads make in one run, all together
MaxCalls == 2

\* lines of input whose reads and writes the transcript io records
MaxLines == 2

\* the timeout of get_response, in one-second waits of response_queue.get(timeout=1)
TimeoutTicks == 1

(***************************************************************************)
(* JSON-RPC error codes used by the servers.                               *)
(***************************************************************************)
PARSE_ERROR == -32700
METHOD_NOT_FOUND == -32601
INVALID_PARAMS == -32602
NOT_INITIALIZED == -32002
EXECUTION_ERROR == -32000
INTERNAL_ERROR == -32603

(***************************************************************************)
(* Input alphabet.  An id is None ("null"), the falsy integer 0 or a       *)
(* truthy integer.                                                         *)
(***************************************************************************)
Ids == {"0", "1"}
NoId == "null"
Truthy(id) == id \notin {NoId, "0", "unbound"}

Methods == {"none", "initialize", "initialized", "tools/list", "tools/call", "bogus/method"}

MainServers == {"keytool", "signer", "downloader"}

\* tools/list of each server: the advertised names, in order
ToolList(s) ==
    CASE s = "keytool" -> <<"generate_keystore", "list_keystore", "export_certificate",
                            "import_certificate", "delete_entry",
                            "check_tool_availability", "keytool_command">>
      [] s = "signer" -> <<"sign_apk", "verify_apk", "get_apk_info", "check_tool_availability">>
      [] s = "downloader" -> <<"download_file", "get_url_info", "verify_file_integrity">>

Range(f) == {f[i] : i \in DOMAIN f}

Registered(s) == Range(ToolList(s))

\* inputSchema.required of each advertised tool
Required(s, tool) ==
    CASE s = "keytool" /\ tool = "generate_keystore" ->
            {"keystore_path", "alias", "dname", "keypass", "storepass"}
      [] s = "keytool" /\ tool = "list_keystore" -> {"keystore_path", "storepass"}
      [] s = "keytool" /\ tool = "export_certificate" ->
            {"keystore_path", "alias", "cert_path", "storepass"}
      [] s = "keytool" /\ tool = "import_certificate" ->
            {"keystore_path", "alias", "cert_path", "storepass"}
      [] s = "keytool" /\ tool = "delete_entry" -> {"keystore_path", "alias", "storepass"}
      [] s = "keytool" /\ tool = "keytool_command" -> {"args"}
      [] s = "signer" /\ tool \in {"sign_apk", "verify_apk", "get_apk_info"} -> {"apk_path"}
      [] s = "downloader" /\ tool \in {"download_file", "get_url_info"} -> {"url"}
      [] s = "downloader" /\ tool = "verify_file_integrity" -> {"file_path"}
      [] OTHER -> {}

\* tool names a tools/call may carry: none, every registered one, an unregistered one
ToolNames(s) == Registered(s) \cup {"none", "no_such_tool"}

\* tools that write to a path the caller names, creating its parent directory
\* (keystore_path, cert_path, output_path)
WritesPath(tool) ==
    tool \in {"generate_keystore", "export_certificate", "import_certificate", "download_file"}

\* arguments of a tools/call: every required field given, or exactly one omitted;
\* nested says whether the path written to lies under nested parent directories
\* (for download_file: whether output_path is given, and so nested)
Arguments(s, tool) ==
    [missing : {"none"} \cup Required(s, tool),
     nested : IF WritesPath(tool) THEN BOOLEAN ELSE {FALSE}]

Has(args, field) == args.missing # field

(***************************************************************************)
(* Writing a Response line.                                                *)
(***************************************************************************)
\* a result payload; isError is meaningful for tools/call content only
Result(payload, isError) == [payload |-> payload, isError |-> isError]

NoResult == Result("none", FALSE)

\* send_response(id, result=None, error=None): error is <<>> (None) or <<code>>;
\* quoted is the method name the error message quotes, <<>> when it quotes none
send_response(id, result, error) ==
    IF error # <<>>
    THEN [id |-> id, kind |-> "error", code |-> error[1], payload |-> "none", isError |-> FALSE,
          quoted |-> <<>>]
    ELSE [id |-> id, kind |-> "result", code |-> 0, payload |-> result.payload,
          isError |-> result.isError, quoted |-> <<>>]

\* what handling one line did: the lines written to stdout, the subprocesses
\* spawned, the directories existing afterwards, the network requests started,
\* how the subprocess (if any) ended, and what the availability check (if any) found
Effect(out, spawned, d, net, run) ==
    [out |-> out, spawned |-> spawned, dirs |-> d, net |-> net, run |-> run,
     avail |-> "unchecked"]

\* the effects `effs`, reached after the availability check answered `available`
Checked(available, effs) ==
    {[e EXCEPT !.avail = IF available THEN "yes" ELSE "no"] : e \in effs}

Reply(id, result, d) == Effect(<<send_response(id, result, <<>>)>>, 0, d, 0, "none")

Fail(id, code, d) == Effect(<<send_response(id, NoResult, <<code>>)>>, 0, d, 0, "none")

\* an error Response whose message ends with the request's method:
\* "message": f"Method not found: {method}"
FailQuoting(id, code, method, d) ==
    Effect(<<[send_response(id, NoResult, <<code>>) EXCEPT !.quoted = <<method>>]>>, 0, d, 0,
           "none")

(***************************************************************************)
(* File system helpers.                                                    *)
(***************************************************************************)
\* os.makedirs(parent, exist_ok=True) from d existing levels: it creates the
\* missing levels one by one and may fail (OSError) at any of them
makedirs(d) == {[ok |-> n = MaxDepth, dirs |-> n] : n \in d..MaxDepth}

\* the parent directory of a path exists
ParentExists(nested, d) == ~nested \/ d = MaxDepth

\* validate_keystore_path(keystore_path): (is_valid, directories afterwards)
validate_keystore_path(given, nested, d) ==
    IF ~given THEN {[ok |-> FALSE, dirs |-> d]}          \* os.path.dirname(None): TypeError, caught
    ELSE IF ParentExists(nested, d) THEN {[ok |-> TRUE, dirs |-> d]}
    ELSE makedirs(d)

(***************************************************************************)
(* subprocess.run(cmd, capture_output=True, text=True, check=False,        *)
(* timeout=...) followed by the report, as in handle_tools_call.           *)
(***************************************************************************)
\* the child exits with status 0 or not, outlives the timeout, cannot be spawned
\* (OSError), or exits (with status 0 or not) with output that is not valid
\* text, so that text=True raises UnicodeDecodeError
RunOutcomes == {"exit_zero", "exit_nonzero", "timeout", "oserror",
                "undecodable_zero", "undecodable_nonzero"}

\* the outcomes in which a child ran and exited with a non-zero status
ExitedNonZero == {"exit_nonzero", "undecodable_nonzero"}

\* a variant in which TimeoutExpired and OSError are not caught by
\* handle_tools_call and no Response is written for them
run_and_report_FailureUnanswered(id, cmd_ok, d) ==
    IF ~cmd_ok
    THEN {Fail(id, EXECUTION_ERROR, d)}
    ELSE { CASE o = "exit_zero" ->
                  Effect(<<send_response(id, Result("content", FALSE), <<>>)>>, 1, d, 0, o)
             [] o = "exit_nonzero" ->
                  Effect(<<send_response(id, Result("content", TRUE), <<>>)>>, 1, d, 0, o)
             [] o = "timeout" -> Effect(<<>>, 1, d, 0, o)
             [] o = "oserror" -> Effect(<<>>, 0, d, 0, o)
             [] o \in {"undecodable_zero", "undecodable_nonzero"} ->
                  Effect(<<send_response(id, NoResult, <<EXECUTION_ERROR>>)>>, 1, d, 0, o)
           : o \in RunOutcomes }

run_and_report(id, cmd_ok, d) ==
    IF ~cmd_ok
    THEN {Fail(id, EXECUTION_ERROR, d)}                  \* None in cmd: TypeError, nothing spawned
    ELSE { CASE o = "exit_zero" ->
                  Effect(<<send_response(id, Result("content", FALSE), <<>>)>>, 1, d, 0, o)
             [] o = "exit_nonzero" ->
                  Effect(<<send_response(id, Result("content", TRUE), <<>>)>>, 1, d, 0, o)
             [] o = "timeout" ->
                  Effect(<<send_response(id, NoResult, <<EXECUTION_ERROR>>)>>, 1, d, 0, o)
             [] o = "oserror" ->
                  Effect(<<send_response(id, NoResult, <<EXECUTION_ERROR>>)>>, 0, d, 0, o)
             [] o \in {"undecodable_zero", "undecodable_nonzero"} ->
                  Effect(<<send_response(id, NoResult, <<EXECUTION_ERROR>>)>>, 1, d, 0, o)
           : o \in RunOutcomes }

(***************************************************************************)
(* keytool-mcp-server.py: handle_tools_call                                *)
(***************************************************************************)
keytool_generate_keystore(id, args, d) ==
    UNION { IF ~v.ok THEN {Fail(id, INVALID_PARAMS, v.dirs)}
            ELSE run_and_report(id, Has(args, "alias") /\ Has(args, "dname")
                                    /\ Has(args, "keypass") /\ Has(args, "storepass"), v.dirs)
          : v \in validate_keystore_path(Has(args, "keystore_path"), args.nested, d) }

keytool_list_keystore(id, args, d) ==
    IF ~Has(args, "keystore_path") THEN {Fail(id, EXECUTION_ERROR, d)}   \* os.path.exists(None)
    ELSE UNION { IF ~exists THEN {Fail(id, INVALID_PARAMS, d)}
                 ELSE run_and_report(id, Has(args, "storepass"), d)
               : exists \in BOOLEAN }

keytool_export_certificate(id, args, d) ==
    IF ~Has(args, "keystore_path") THEN {Fail(id, EXECUTION_ERROR, d)}
    ELSE UNION { IF ~exists THEN {Fail(id, INVALID_PARAMS, d)}
                 ELSE IF ~Has(args, "cert_path") THEN {Fail(id, EXECUTION_ERROR, d)}
                 ELSE IF ParentExists(args.nested, d)
                      THEN run_and_report(id, Has(args, "alias") /\ Has(args, "storepass"), d)
                 ELSE UNION { IF ~m.ok THEN {Fail(id, EXECUTION_ERROR, m.dirs)}
                              ELSE run_and_report(id, Has(args, "alias") /\ Has(args, "storepass"),
                                                  m.dirs)
                            : m \in makedirs(d) }
               : exists \in BOOLEAN }

keytool_import_certificate(id, args, d) ==
    IF ~Has(args, "cert_path") THEN {Fail(id, EXECUTION_ERROR, d)}
    ELSE UNION { IF ~exists THEN {Fail(id, INVALID_PARAMS, d)}
                 ELSE UNION { IF ~v.ok THEN {Fail(id, INVALID_PARAMS, v.dirs)}
                              ELSE run_and_report(id, Has(args, "alias") /\ Has(args, "storepass"),
                                                  v.dirs)
                            : v \in validate_keystore_path(Has(args, "keystore_path"),
                                                           args.nested, d) }
               : exists \in BOOLEAN }

keytool_delete_entry(id, args, d) ==
    IF ~Has(args, "keystore_path") THEN {Fail(id, EXECUTION_ERROR, d)}
    ELSE UNION { IF ~exists THEN {Fail(id, INVALID_PARAMS, d)}
                 ELSE run_and_report(id, Has(args, "alias") /\ Has(args, "storepass"), d)
               : exists \in BOOLEAN }

\* the if/elif chain on tool_name, reached when keytool is installed
keytool_dispatch(id, params, d) ==
    CASE params.name = "generate_keystore" -> keytool_generate_keystore(id, params.args, d)
      [] params.name = "list_keystore" -> keytool_list_keystore(id, params.args, d)
      [] params.name = "export_certificate" -> keytool_export_certificate(id, params.args, d)
      [] params.name = "import_certificate" -> keytool_import_certificate(id, params.args, d)
      [] params.name = "delete_entry" -> keytool_delete_entry(id, params.args, d)
      [] params.name = "keytool_command" -> run_and_report(id, TRUE, d)
      [] OTHER -> {Fail(id, METHOD_NOT_FOUND, d)}

\* check_keytool_availability() is shutil.which("keytool"): the environment decides
keytool_handle_tools_call(id, params, d) ==
    IF params.shape # "dict" THEN {Fail(id, EXECUTION_ERROR, d)}        \* params.get: AttributeError
    ELSE IF params.name = "check_tool_availability" THEN {Reply(id, Result("content", FALSE), d)}
    ELSE UNION { Checked(available, IF ~available THEN {Fail(id, EXECUTION_ERROR, d)}
                                    ELSE keytool_dispatch(id, params, d))
               : available \in BOOLEAN }

(***************************************************************************)
(* uber-apk-signer-mcp-server.py: handle_tools_call                        *)
(***************************************************************************)
\* check_tool_availability: subprocess.run(["which", "java"], capture_output=True)
\* is a probe whose exit status becomes java_available in the content; the
\* wrapped tool is not run.  The call has no timeout: when the probe does not
\* exit, subprocess.run does not return and nothing is written
signer_check_tool_availability(id, d) ==
    { Effect(<<send_response(id, Result("content", FALSE), <<>>)>>, 1, d, 0, "probe_found"),
      Effect(<<send_response(id, Result("content", FALSE), <<>>)>>, 1, d, 0, "probe_missing"),
      Effect(<<send_response(id, NoResult, <<EXECUTION_ERROR>>)>>, 0, d, 0, "probe_oserror"),
      Effect(<<>>, 1, d, 0, "probe_hangs") }

\* the apk_path check and validate_apk_file, then whatever follows
signer_with_valid_apk(id, args, d, then) ==
    IF ~Has(args, "apk_path") THEN {Fail(id, INVALID_PARAMS, d)}
    ELSE UNION { IF ~is_valid THEN {Fail(id, INVALID_PARAMS, d)} ELSE then
               : is_valid \in BOOLEAN }

\* check_uber_apk_signer_availability() looks for the jar: the environment decides
signer_handle_tools_call(id, params, d) ==
    IF params.shape # "dict" THEN {Fail(id, EXECUTION_ERROR, d)}
    ELSE CASE params.name = "check_tool_availability" -> signer_check_tool_availability(id, d)
           [] params.name = "get_apk_info" ->
                signer_with_valid_apk(id, params.args, d, {Reply(id, Result("content", FALSE), d)})
           [] params.name \in {"sign_apk", "verify_apk"} ->
                signer_with_valid_apk(id, params.args, d,
                    UNION { Checked(available, IF ~available THEN {Fail(id, EXECUTION_ERROR, d)}
                                               ELSE run_and_report(id, TRUE, d))
                          : available \in BOOLEAN })
           [] OTHER -> {Fail(id, METHOD_NOT_FOUND, d)}

(***************************************************************************)
(* downloader.py: handle_tools_call                                        *)
(***************************************************************************)
\* a network request was started and ended in a Response
Fetched(id, result, error, d) ==
    Effect(<<send_response(id, result, error)>>, 0, d, 1, "none")

\* the url check and validate_url, then whatever follows
downloader_with_valid_url(id, args, d, then) ==
    IF ~Has(args, "url") THEN {Fail(id, INVALID_PARAMS, d)}
    ELSE UNION { IF ~is_valid THEN {Fail(id, INVALID_PARAMS, d)} ELSE then
               : is_valid \in BOOLEAN }

\* session.get / session.head: the transfer succeeds, or fails (RequestException,
\* file too large, hash mismatch, I/O error)
downloader_fetch(id, d) ==
    { Fetched(id, Result("content", FALSE), <<>>, d),
      Fetched(id, NoResult, <<EXECUTION_ERROR>>, d) }

\* download_file with output_path given (nested): os.makedirs outside any
\* validation; without output_path the current directory is used
downloader_download_file(id, args, d) ==
    IF ~args.nested THEN downloader_fetch(id, d)
    ELSE UNION { IF ~m.ok THEN {Fail(id, EXECUTION_ERROR, m.dirs)}
                 ELSE downloader_fetch(id, m.dirs)
               : m \in makedirs(d) }

downloader_verify_file_integrity(id, args, d) ==
    IF ~Has(args, "file_path") THEN {Fail(id, INVALID_PARAMS, d)}
    ELSE UNION { IF ~exists THEN {Fail(id, INVALID_PARAMS, d)}
                 ELSE { Reply(id, Result("content", FALSE), d),
                        Fail(id, EXECUTION_ERROR, d) }       \* calculate_file_hash returned None
               : exists \in BOOLEAN }

downloader_handle_tools_call(id, params, d) ==
    IF params.shape # "dict" THEN {Fail(id, EXECUTION_ERROR, d)}
    ELSE CASE params.name = "verify_file_integrity" ->
                downloader_verify_file_integrity(id, params.args, d)
           [] params.name = "download_file" ->
                downloader_with_valid_url(id, params.args, d,
                                          downloader_download_file(id, params.args, d))
           [] params.name = "get_url_info" ->
                downloader_with_valid_url(id, params.args, d, downloader_fetch(id, d))
           [] OTHER -> {Fail(id, METHOD_NOT_FOUND, d)}

\* handle_tools_call of the server script s
handle_tools_call(s, id, params, d) ==
    CASE s = "keytool" -> keytool_handle_tools_call(id, params, d)
      [] s = "signer" -> signer_handle_tools_call(id, params, d)
      [] s = "downloader" -> downloader_handle_tools_call(id, params, d)

(***************************************************************************)
(* enhanced_mcp_server.py: the results of execute_command_with_diagnostics *)
(***************************************************************************)
DefaultTimeout == 30

\* exit statuses of a child; a negative status is a child killed by a signal
ExitStatuses == {-2, -1, 0, 1, 2}

\* str(e) of the exceptions the call can catch: never one of the fixed tags
ErrorTexts == {"oserror_text", "decode_error_text"}

\* the dictionary returned after a normal exit (lines 91-96): no error key
normal_result(n) == [exitCode |-> n, error |-> "absent"]

\* the dictionary returned by `except subprocess.TimeoutExpired` (lines 109-115)
timeout_result == [exitCode |-> -1, error |-> "timeout"]

\* the dictionary returned by `except Exception as e` (lines 119-125)
error_result(text) == [exitCode |-> -2, error |-> text]

NoOutcome == [exitCode |-> 0, error |-> "pending"]

ExStart(cmd) ==
    [pc |-> "spawn", cmd |-> cmd, child |-> "none", clock |-> 0, status |-> 0,
     expired |-> FALSE, spawn_failed |-> FALSE, result |-> NoOutcome, raised |-> FALSE]

ExIdle == [ExStart("strings") EXCEPT !.pc = "idle"]

(***************************************************************************)
(* tests/mcp_client.py: StdioMCPClient, the state of one client object     *)
(* and of the threads calling it.                                          *)
(***************************************************************************)
\* the threads that call methods of one client object
Threads == {"t1", "t2"}

\* Python's None where an id is expected
CNone == 0

\* a thread that is in no call: whether it is inside initialize(), the method
\* it runs, where it is in it, the
\* request id it works with (request_id of get_response, request["id"] of
\* send_request), the value it loaded for `+= 1`, and the locals of get_response
ThreadIdle == [outer |-> "none", call |-> "none", pc |-> "idle", rid |-> CNone, tmp |-> 0,
               temp_queue |-> <<>>, response |-> <<>>, clock |-> 0]

\* one more method call may start
CanCall == calls < MaxCalls

\* StdioMCPClient.__init__: request_id = 0 and an empty queue.Queue()
ClientIdle ==
    /\ request_id = 0
    /\ client_initialized = FALSE
    /\ response_queue = <<>>
    /\ stdout_pipe = <<>>
    /\ produced = 0
    /\ stdin_wire = <<>>
    /\ stdin_lock = "free"
    /\ th = [t \in Threads |-> ThreadIdle]
    /\ calls = 0
    /\ enqueued = {}
    /\ returned = <<>>
    /\ issued = <<>>

(***************************************************************************)
(* Input lines of main().                                                  *)
(***************************************************************************)
\* request.get("params", {}) when the request carries no params
EmptyParams == [shape |-> "dict", name |-> "none", args |-> [missing |-> "none", nested |-> FALSE]]

\* params that are not a JSON object (a list, a string, null)
NonDictParams == [shape |-> "nondict", name |-> "none",
                  args |-> [missing |-> "none", nested |-> FALSE]]

CallParams(s) ==
    {EmptyParams, NonDictParams}
    \cup UNION { [shape : {"dict"}, name : {t}, args : Arguments(s, t)] : t \in ToolNames(s) }

Line(kind, id, method, params) == [kind |-> kind, id |-> id, method |-> method, params |-> params]

\* lines that json.loads decodes to an object
ObjectLines(s) ==
    { Line("object", id, m, EmptyParams) : id \in Ids \cup {NoId}, m \in Methods }
    \cup { Line("object", id, "tools/call", p) : id \in Ids \cup {NoId}, p \in CallParams(s) }
    \cup { Line("object", id, "tools/list", NonDictParams) : id \in Ids \cup {NoId} }

\* a line (or the record of one) that is a Request: an object with an id and a method
IsRequest(line) == line.kind = "object" /\ line.id \in Ids /\ line.method # "none"

(***************************************************************************)
(* main(): the if/elif chain on method and initialized.                    *)
(***************************************************************************)
\* a variant of the chain with the initialized check placed after tools/list
Route_GateAfterList(method, init) ==
    IF method = "initialize" THEN "initialize"
    ELSE IF method = "initialized" THEN "continue"
    ELSE IF method = "tools/list" THEN "tools_list"
    ELSE IF ~init THEN "not_initialized"
    ELSE IF method = "tools/call" THEN "tools_call"
    ELSE "not_found"

Route(method, init) ==
    IF method = "initialize" THEN "initialize"
    ELSE IF method = "initialized" THEN "continue"
    ELSE IF ~init THEN "not_initialized"
    ELSE IF method = "tools/list" THEN "tools_list"
    ELSE IF method = "tools/call" THEN "tools_call"
    ELSE "not_found"

\* the except clauses of main(): `if req_id: send_response(req_id, error=...)`.
\* Reading req_id before its first assignment raises UnboundLocalError inside
\* the handler, which nothing catches.
except_clause(rid, code, d) ==
    IF rid = "unbound" THEN [crash |-> TRUE, eff |-> Effect(<<>>, 0, d, 0, "none")]
    ELSE IF Truthy(rid) THEN [crash |-> FALSE, eff |-> Fail(rid, code, d)]
    ELSE [crash |-> FALSE, eff |-> Effect(<<>>, 0, d, 0, "none")]

(***************************************************************************)
(* Bookkeeping of one loop iteration.                                      *)
(***************************************************************************)
Record(line, eff) ==
    [kind |-> line.kind, id |-> line.id, method |-> line.method,
     shape |-> line.params.shape, tool |-> line.params.name,
     missing |-> line.params.args.missing,
     init |-> initialized, out |-> eff.out, spawned |-> eff.spawned,
     created |-> eff.dirs - dirs, net |-> eff.net, run |-> eff.run, avail |-> eff.avail]

NoLine == [kind |-> "none", id |-> NoId, method |-> "none", shape |-> "dict", tool |-> "none",
           missing |-> "none", init |-> FALSE, out |-> <<>>, spawned |-> 0, created |-> 0,
           net |-> 0, run |-> "none", avail |-> "unchecked"]

\* the Responses `out`, written while line k is handled
Writes(k, out) == [i \in 1..Len(out) |-> [ev |-> "write", line |-> k]]

\* a variant of the loop that writes the Responses to a line only after it has
\* read the next one
Events_Deferred(k, out) ==
    <<[ev |-> "read", line |-> k]>> \o (IF k > 1 THEN Writes(k - 1, last.out) ELSE <<>>)

\* one iteration on the k-th line: sys.stdin.readline() returns it, then every
\* Response is printed and flushed before the loop comes back to readline()
Events(k, out) == <<[ev |-> "read", line |-> k]>> \o Writes(k, out)

\* the transcript when it is not kept, and an empty one; final tells whether
\* the client has written a last message without a newline and closed stdin
\* ("pending": it is unread), and whether readline() has returned it ("read")
IoOff == [recording |-> FALSE, lines |-> 0, log |-> <<>>, final |-> "none"]
IoEmpty == [recording |-> TRUE, lines |-> 0, log |-> <<>>, final |-> "none"]

\* a recorded transcript holds at most MaxLines lines, and readline() returns
\* no line once it has returned the unterminated one before EOF
CanLog == io.recording => (io.lines < MaxLines /\ io.final # "read")

\* the transcript after one more iteration that wrote `out`; readline()
\* returns the text before EOF like a line, and line.strip() makes a line
\* with and without its newline the same text
Log(out) ==
    IF io.recording
    THEN [io EXCEPT !.lines = @ + 1, !.log = @ \o Events(io.lines + 1, out),
                    !.final = IF @ = "pending" THEN "read" ELSE @]
    ELSE io

\* MCPClient.send_json(data, close_stdin=True): the message is written
\* without a newline, flushed, and stdin is closed
SendFinal ==
    /\ io.recording
    /\ io.final = "none"
    /\ io.lines < MaxLines
    /\ pc = "running"
    /\ io' = [io EXCEPT !.final = "pending"]
    /\ UNCHANGED <<serverVars, clientVars>>

\* one iteration that read `line`, had effect `eff` and leaves the locals as given
Iteration(line, eff, init2, rid2, pc2) ==
    /\ CanLog
    /\ io' = Log(eff.out)
    /\ last' = Record(line, eff)
    /\ req_origin' = IF line.kind # "object" THEN req_origin
                     ELSE IF IsRequest(line) THEN "request" ELSE "other"
    /\ dirs' = eff.dirs
    /\ initialized' = init2
    /\ req_id' = rid2
    /\ pc' = pc2
    /\ UNCHANGED <<server, ex, clientVars>>

CanRead == pc = "running"

(***************************************************************************)
(* main() of keytool-mcp-server.py, uber-apk-signer-mcp-server.py and      *)
(* downloader.py: one action per way an iteration of the loop can go.      *)
(***************************************************************************)
\* readline() returns "": break
\* a variant whose read reports EOF although text without a newline is unread
ReadEOF_DropsUnterminated ==
    /\ pc = "running"
    /\ server \in MainServers
    /\ pc' = "exited"
    /\ UNCHANGED <<server, initialized, req_id, dirs, last, req_origin, ex, clientVars, io>>

\* readline() returns "" (nothing is left unread and stdin is closed): break
ReadEOF ==
    /\ pc = "running"
    /\ server \in MainServers
    /\ io.final # "pending"
    /\ pc' = "exited"
    /\ UNCHANGED <<server, initialized, req_id, dirs, last, req_origin, ex, clientVars, io>>

\* a blank line or malformed JSON: json.loads raises JSONDecodeError
ReadUndecodable ==
    /\ CanRead
    /\ server \in MainServers
    /\ \E kind \in {"blank", "malformed"} :
         LET h == except_clause(req_id, PARSE_ERROR, dirs) IN
         Iteration(Line(kind, NoId, "none", EmptyParams), h.eff, initialized, req_id,
                   IF h.crash THEN "crashed" ELSE "running")

\* valid JSON that is no object: request.get raises AttributeError
ReadNonObject ==
    /\ CanRead
    /\ server \in MainServers
    /\ LET h == except_clause(req_id, EXECUTION_ERROR, dirs) IN
       Iteration(Line("nonobject", NoId, "none", EmptyParams), h.eff, initialized, req_id,
                 IF h.crash THEN "crashed" ELSE "running")

\* a variant that accepts the handshake once and rejects a repeated one
HandleInitialize_RejectsSecond ==
    /\ CanRead
    /\ server \in MainServers
    /\ \E line \in ObjectLines(server) :
         /\ Route(line.method, initialized) = "initialize"
         /\ Iteration(line,
                      IF initialized THEN Fail(line.id, EXECUTION_ERROR, dirs)
                      ELSE Reply(line.id, Result("handshake", FALSE), dirs),
                      TRUE, line.id, "running")

\* method == "initialize": handle_initialize(req_id, params); initialized = True
HandleInitialize ==
    /\ CanRead
    /\ server \in MainServers
    /\ \E line \in ObjectLines(server) :
         /\ Route(line.method, initialized) = "initialize"
         /\ Iteration(line, Reply(line.id, Result("handshake", FALSE), dirs), TRUE, line.id,
                      "running")

\* a variant in which the client's confirmation completes the handshake
SkipInitialized_SetsFlag ==
    /\ CanRead
    /\ server \in MainServers
    /\ \E line \in ObjectLines(server) :
         /\ Route(line.method, initialized) = "continue"
         /\ Iteration(line, Effect(<<>>, 0, dirs, 0, "none"), TRUE, line.id, "running")

\* method == "initialized": continue
SkipInitialized ==
    /\ CanRead
    /\ server \in MainServers
    /\ \E line \in ObjectLines(server) :
         /\ Route(line.method, initialized) = "continue"
         /\ Iteration(line, Effect(<<>>, 0, dirs, 0, "none"), initialized, line.id, "running")

RejectNotInitialized ==
    /\ CanRead
    /\ server \in MainServers
    /\ \E line \in ObjectLines(server) :
         /\ Route(line.method, initialized) = "not_initialized"
         /\ Iteration(line, Fail(line.id, NOT_INITIALIZED, dirs), initialized, line.id, "running")

\* a variant of handle_tools_list that reads its params as an object
HandleToolsList_ReadsParams ==
    /\ CanRead
    /\ server \in MainServers
    /\ \E line \in ObjectLines(server) :
         /\ Route(line.method, initialized) = "tools_list"
         /\ Iteration(line,
                      IF line.params.shape # "dict" THEN Fail(line.id, EXECUTION_ERROR, dirs)
                      ELSE Reply(line.id, Result("tools", FALSE), dirs),
                      initialized, line.id, "running")

\* method == "tools/list": handle_tools_list(req_id, params) writes the
\* literal list ToolList(server), whatever params is
HandleToolsList ==
    /\ CanRead
    /\ server \in MainServers
    /\ \E line \in ObjectLines(server) :
         /\ Route(line.method, initialized) = "tools_list"
         /\ Iteration(line, Reply(line.id, Result("tools", FALSE), dirs), initialized, line.id,
                      "running")

HandleToolsCall ==
    /\ CanRead
    /\ server \in MainServers
    /\ \E line \in ObjectLines(server) :
         /\ Route(line.method, initialized) = "tools_call"
         /\ \E eff \in handle_tools_call(server, line.id, line.params, dirs) :
              Iteration(line, eff, initialized, line.id,
                        IF eff.run = "probe_hangs" THEN "blocked" ELSE "running")

\* a variant whose message is the fixed text "Method not found"
MethodNotFound_FixedMessage ==
    /\ CanRead
    /\ server \in MainServers
    /\ \E line \in ObjectLines(server) :
         /\ Route(line.method, initialized) = "not_found"
         /\ Iteration(line, Fail(line.id, METHOD_NOT_FOUND, dirs), initialized, line.id, "running")

\* else: send_response(req_id, error={"code": -32601,
\* "message": f"Method not found: {method}"})
MethodNotFound ==
    /\ CanRead
    /\ server \in MainServers
    /\ \E line \in ObjectLines(server) :
         /\ Route(line.method, initialized) = "not_found"
         /\ Iteration(line, FailQuoting(line.id, METHOD_NOT_FOUND, line.method, dirs),
                      initialized, line.id, "running")

Init ==
    /\ server \in MainServers
    /\ initialized = FALSE
    /\ req_id = "unbound"
    /\ pc = "running"
    /\ dirs = 0
    /\ last = NoLine
    /\ req_origin = "none"
    /\ ex = ExIdle
    /\ io = IoOff
    /\ ClientIdle

Next ==
    \/ ReadEOF
    \/ ReadUndecodable
    \/ ReadNonObject
    \/ HandleInitialize
    \/ SkipInitialized
    \/ RejectNotInitialized
    \/ HandleToolsList
    \/ HandleToolsCall
    \/ MethodNotFound

Spec == Init /\ [][Next]_vars

(***************************************************************************)
(* enhanced_mcp_server.py: execute_command_with_diagnostics(command,       *)
(* timeout=30), step by step.  subprocess.run spawns the child, waits for  *)
(* it up to the timeout, and on expiry kills it, waits for it and raises   *)
(* TimeoutExpired.                                                         *)
(***************************************************************************)
ExFrame ==
    UNCHANGED <<server, initialized, req_id, pc, dirs, last, req_origin, clientVars, io>>

\* the call: ' '.join(command) is logged first; a command holding a non-string
\* raises TypeError there, and again in the except clause that formats it
ExecCall ==
    /\ ex.pc \in {"idle", "done"}
    /\ \E cmd \in {"strings", "non_strings"} :
         ex' = IF cmd = "strings" THEN ExStart(cmd)
               ELSE [ExStart(cmd) EXCEPT !.pc = "done", !.raised = TRUE]
    /\ ExFrame

\* Popen: the child starts
ExecSpawn ==
    /\ ex.pc = "spawn"
    /\ ex' = [ex EXCEPT !.pc = "wait", !.child = "running"]
    /\ ExFrame

\* Popen raises OSError (no such file, permission denied): caught as Exception
ExecSpawnFails ==
    /\ ex.pc = "spawn"
    /\ ex' = [ex EXCEPT !.pc = "done", !.spawn_failed = TRUE,
                        !.result = error_result("oserror_text")]
    /\ ExFrame

\* time passes while communicate() waits
ExecTick ==
    /\ ex.pc = "wait" /\ ex.child = "running"
    /\ ex.clock < DefaultTimeout
    /\ ex' = [ex EXCEPT !.clock = @ + 1]
    /\ ExFrame

\* the child exits by itself before the deadline
ExecChildExits ==
    /\ ex.pc = "wait" /\ ex.child = "running"
    /\ ex.clock < DefaultTimeout
    /\ \E n \in ExitStatuses : ex' = [ex EXCEPT !.child = "exited", !.status = n]
    /\ ExFrame

\* communicate() returns the output of the exited child, which is reaped
ExecCollect ==
    /\ ex.pc = "wait" /\ ex.child = "exited"
    /\ ex' = [ex EXCEPT !.pc = "done", !.child = "reaped", !.result = normal_result(ex.status)]
    /\ ExFrame

\* text=True: the output of the exited child is no valid text, communicate()
\* raises UnicodeDecodeError, caught as Exception
ExecDecodeFails ==
    /\ ex.pc = "wait" /\ ex.child = "exited"
    /\ ex' = [ex EXCEPT !.pc = "done", !.child = "reaped",
                        !.result = error_result("decode_error_text")]
    /\ ExFrame

\* a variant that raises TimeoutExpired without killing the child
ExecExpire_NoKill ==
    /\ ex.pc = "wait" /\ ex.child = "running"
    /\ ex.clock = DefaultTimeout
    /\ ex' = [ex EXCEPT !.pc = "done", !.expired = TRUE, !.result = timeout_result]
    /\ ExFrame

\* the deadline passes with the child still running: subprocess.run kills it
ExecExpire ==
    /\ ex.pc = "wait" /\ ex.child = "running"
    /\ ex.clock = DefaultTimeout
    /\ ex' = [ex EXCEPT !.pc = "reap", !.expired = TRUE, !.child = "killed"]
    /\ ExFrame

\* subprocess.run waits for the killed child and re-raises TimeoutExpired,
\* which the except clause turns into the timeout result
ExecReap ==
    /\ ex.pc = "reap"
    /\ ex' = [ex EXCEPT !.pc = "done", !.child = "reaped", !.result = timeout_result]
    /\ ExFrame

InitExec ==
    /\ server = "executor"
    /\ initialized = FALSE
    /\ req_id = "unbound"
    /\ pc = "running"
    /\ dirs = 0
    /\ last = NoLine
    /\ req_origin = "none"
    /\ ex = ExIdle
    /\ io = IoOff
    /\ ClientIdle

NextExec ==
    \/ ExecCall
    \/ ExecSpawn
    \/ ExecSpawnFails
    \/ ExecTick
    \/ ExecChildExits
    \/ ExecCollect
    \/ ExecDecodeFails
    \/ ExecExpire
    \/ ExecReap

SpecExec == InitExec /\ [][NextExec]_vars

\* everything a call can return, or "raise": the call as one step
ExecResults ==
    {normal_result(n) : n \in ExitStatuses} \cup {timeout_result}
    \cup {error_result(t) : t \in ErrorTexts}

(***************************************************************************)
(* enhanced_mcp_server.py: enhanced_uber_apk_signer_server,                *)
(* enhanced_keytool_server and enhanced_downloader_server.  These loops    *)
(* ignore `method` and have no initialize gate.                            *)
(***************************************************************************)
EnhancedServers == {"enhanced_signer", "enhanced_keytool", "enhanced_downloader"}

\* send_error(request_id, code, message, data)
send_error(id, code) ==
    [id |-> id, kind |-> "error", code |-> code, payload |-> "none", isError |-> FALSE]

\* send_response(request_id, result) of the wrapper: always a result
enhanced_send_response(id, payload) ==
    [id |-> id, kind |-> "result", code |-> 0, payload |-> payload, isError |-> FALSE]

\* what the object carries: jsonrpc absent, "2.0" or another version; id absent,
\* null or a value; params absent, not an object, or an object whose args is a
\* list of strings, no list, a list holding a non-string, or that holds a url
EnhancedParams == {"absent", "nondict", "args_list", "args_not_list", "args_non_strings", "url"}

EnhancedLine(kind, jsonrpc, id, params) ==
    [kind |-> kind, jsonrpc |-> jsonrpc, id |-> id, params |-> params]

EnhancedObjects ==
    { EnhancedLine("object", v, id, p) :
        v \in {"absent", "2.0", "1.0"}, id \in Ids \cup {NoId, "absent"}, p \in EnhancedParams }

\* a variant that checks the fields are present but not the version
validate_request_AnyVersion(line) == line.jsonrpc # "absent" /\ line.id # "absent"

\* validate_request(request)
validate_request(line) == line.jsonrpc # "absent" /\ line.id # "absent" /\ line.jsonrpc = "2.0"

\* request.get("id")
GetId(line) == IF line.id = "absent" THEN NoId ELSE line.id

\* isinstance(params.get("args", []), list)
ArgsIsList(line) == line.params # "args_not_list"

EnhancedRecord(line, out, spawned, net, result) ==
    [kind |-> line.kind, jsonrpc |-> line.jsonrpc, id |-> line.id, params |-> line.params,
     out |-> out, spawned |-> spawned, net |-> net, result |-> result]

EnhancedNoLine ==
    EnhancedRecord(EnhancedLine("none", "absent", "absent", "absent"), <<>>, 0, 0, NoOutcome)

EnhancedFrame == UNCHANGED <<server, initialized, req_id, dirs, req_origin, ex, clientVars>>

\* one iteration of a wrapper loop
EnhancedIteration(line, out, spawned, net, result) ==
    /\ CanLog
    /\ io' = Log(out)
    /\ last' = EnhancedRecord(line, out, spawned, net, result)
    /\ pc' = "running"
    /\ EnhancedFrame

\* enhanced_uber_apk_signer_server: the jar exists, the loop starts
EnhancedStart ==
    /\ pc = "starting"
    /\ pc' = "running"
    /\ UNCHANGED <<last, io>>
    /\ EnhancedFrame

\* enhanced_uber_apk_signer_server: the jar is missing; an error with id None
\* is written and the function returns
EnhancedStartFails ==
    /\ pc = "starting"
    /\ pc' = "exited"
    /\ last' = EnhancedRecord(EnhancedLine("startup", "absent", "absent", "absent"),
                              <<send_error(NoId, EXECUTION_ERROR)>>, 0, 0, NoOutcome)
    /\ io' = IF io.recording
             THEN [io EXCEPT !.log = @ \o Writes(0, <<send_error(NoId, EXECUTION_ERROR)>>)]
             ELSE io
    /\ EnhancedFrame

EnhancedReadEOF ==
    /\ pc = "running"
    /\ server \in EnhancedServers
    /\ io.final # "pending"
    /\ pc' = "exited"
    /\ UNCHANGED <<last, io>>
    /\ EnhancedFrame

\* `if not line.strip(): continue`
EnhancedSkipBlank ==
    /\ pc = "running"
    /\ server \in EnhancedServers
    /\ EnhancedIteration(EnhancedLine("blank", "absent", "absent", "absent"), <<>>, 0, 0, NoOutcome)

\* json.loads raises JSONDecodeError: send_error(None, -32700, ...)
EnhancedParseError ==
    /\ pc = "running"
    /\ server \in EnhancedServers
    /\ EnhancedIteration(EnhancedLine("malformed", "absent", "absent", "absent"),
                         <<send_error(NoId, PARSE_ERROR)>>, 0, 0, NoOutcome)

\* validate_request fails: send_error(request.get("id"), -32602, ...)
EnhancedInvalidRequest ==
    /\ pc = "running"
    /\ server \in EnhancedServers
    /\ \E line \in EnhancedObjects :
         /\ ~validate_request(line)
         /\ EnhancedIteration(line, <<send_error(GetId(line), INVALID_PARAMS)>>, 0, 0, NoOutcome)

\* whether handling the validated line raises before its Response is written:
\* request.get on a non-object, params.get on params that are no object, or
\* ' '.join on a command holding a non-string
Raises(s, line) ==
    \/ line.kind = "nonobject"
    \/ line.params = "nondict"
    \/ s # "enhanced_downloader" /\ line.params = "args_non_strings"

\* the loop's `except Exception`: send_error(None, -32603, ...)
EnhancedInternalError ==
    /\ pc = "running"
    /\ server \in EnhancedServers
    /\ \E line \in EnhancedObjects \cup {EnhancedLine("nonobject", "absent", "absent", "absent")} :
         /\ line.kind = "object" => validate_request(line)
         /\ Raises(server, line)
         /\ EnhancedIteration(line, <<send_error(NoId, INTERNAL_ERROR)>>, 0, 0, NoOutcome)

\* args is no list (signer, keytool) or url is missing (downloader):
\* send_error(req_id, -32602, ...)
EnhancedBadParams ==
    /\ pc = "running"
    /\ server \in EnhancedServers
    /\ \E line \in EnhancedObjects :
         /\ validate_request(line)
         /\ ~Raises(server, line)
         /\ IF server = "enhanced_downloader" THEN line.params # "url" ELSE ~ArgsIsList(line)
         /\ EnhancedIteration(line, <<send_error(GetId(line), INVALID_PARAMS)>>, 0, 0, NoOutcome)

\* the command runs through execute_command_with_diagnostics and its result,
\* whatever it is, is sent with send_response(req_id, result)
EnhancedExecute ==
    /\ pc = "running"
    /\ server \in {"enhanced_signer", "enhanced_keytool"}
    /\ \E line \in EnhancedObjects :
         /\ validate_request(line)
         /\ ~Raises(server, line)
         /\ ArgsIsList(line)
         /\ \E r \in ExecResults :
              EnhancedIteration(line, <<enhanced_send_response(GetId(line), "execution")>>,
                                IF r.error = "oserror_text" THEN 0 ELSE 1, 0, r)

\* enhanced_downloader_server: requests.get; success and failure both end in
\* send_response(req_id, {"status": ...})
EnhancedDownload ==
    /\ pc = "running"
    /\ server = "enhanced_downloader"
    /\ \E line \in EnhancedObjects :
         /\ validate_request(line)
         /\ ~Raises(server, line)
         /\ line.params = "url"
         /\ \E status \in {"download_success", "download_error"} :
              EnhancedIteration(line, <<enhanced_send_response(GetId(line), status)>>, 0, 1,
                                NoOutcome)

InitEnhanced ==
    /\ server \in EnhancedServers
    /\ initialized = FALSE
    /\ req_id = "unbound"
    /\ pc = IF server = "enhanced_signer" THEN "starting" ELSE "running"
    /\ dirs = 0
    /\ last = EnhancedNoLine
    /\ req_origin = "none"
    /\ ex = ExIdle
    /\ io = IoOff
    /\ ClientIdle

NextEnhanced ==
    \/ EnhancedStart
    \/ EnhancedStartFails
    \/ EnhancedReadEOF
    \/ EnhancedSkipBlank
    \/ EnhancedParseError
    \/ EnhancedInvalidRequest
    \/ EnhancedInternalError
    \/ EnhancedBadParams
    \/ EnhancedExecute
    \/ EnhancedDownload

SpecEnhanced == InitEnhanced /\ [][NextEnhanced]_vars

(***************************************************************************)
(* Any of the server loops, with the transcript of its connection kept.    *)
(***************************************************************************)
InitSequence ==
    /\ server \in MainServers \cup EnhancedServers
    /\ initialized = FALSE
    /\ req_id = "unbound"
    /\ pc = IF server = "enhanced_signer" THEN "starting" ELSE "running"
    /\ dirs = 0
    /\ last = IF server \in MainServers THEN NoLine ELSE EnhancedNoLine
    /\ req_origin = "none"
    /\ ex = ExIdle
    /\ io = IoEmpty
    /\ ClientIdle

NextSequence ==
    \/ SendFinal
    \/ ReadEOF
    \/ ReadUndecodable
    \/ ReadNonObject
    \/ HandleInitialize
    \/ SkipInitialized
    \/ RejectNotInitialized
    \/ HandleToolsList
    \/ HandleToolsCall
    \/ MethodNotFound
    \/ EnhancedStart
    \/ EnhancedStartFails
    \/ EnhancedReadEOF
    \/ EnhancedSkipBlank
    \/ EnhancedParseError
    \/ EnhancedInvalidRequest
    \/ EnhancedInternalError
    \/ EnhancedBadParams
    \/ EnhancedExecute
    \/ EnhancedDownload

SpecSequence == InitSequence /\ [][NextSequence]_vars

(***************************************************************************)
(* tests/mcp_client.py: the server side of the pipes and the reader thread *)
(* of StdioMCPClient.                                                      *)
(***************************************************************************)
ClientFrame == UNCHANGED <<serverVars, io>>

\* a line on the server's stdout: the n-th written; JSON text of an object
\* (with its id, CNone when it has none), JSON text of another value, or no JSON
InboundLines(n) ==
    { [n |-> n, kind |-> "object", id |-> id] : id \in {CNone, 1, 2} }
    \cup { [n |-> n, kind |-> k, id |-> CNone] : k \in {"nonobject", "nonjson"} }

\* the server process writes one more line to its stdout
ServerWritesLine ==
    /\ produced < MaxInbound
    /\ \E line \in InboundLines(produced + 1) :
         stdout_pipe' = Append(stdout_pipe, line)
    /\ produced' = produced + 1
    /\ UNCHANGED <<request_id, client_initialized, response_queue, stdin_wire, stdin_lock, th,
                   calls, enqueued, returned, issued>>
    /\ ClientFrame

\* a queue made with queue.Queue(maxsize=1): put waits while it holds a message
QueueCanPut_MaxsizeOne(q) == Len(q) < 1

\* queue.Queue() has maxsize 0: put never waits for room
QueueCanPut(q) == TRUE

\* _read_stdout: one iteration of `for line in iter(readline, '')`; a decoded
\* value is put on response_queue, anything else is printed and dropped
ReadStdout ==
    /\ stdout_pipe # <<>>
    /\ LET line == Head(stdout_pipe) IN
         IF line.kind = "nonjson"
         THEN UNCHANGED <<response_queue, enqueued>>
         ELSE /\ QueueCanPut(response_queue)
              /\ response_queue' = Append(response_queue, line)
              /\ enqueued' = enqueued \cup {line}
    /\ stdout_pipe' = Tail(stdout_pipe)
    /\ UNCHANGED <<request_id, client_initialized, produced, stdin_wire, stdin_lock, th, calls,
                   returned, issued>>
    /\ ClientFrame

(***************************************************************************)
(* tests/mcp_client.py: StdioMCPClient.get_response(request_id, timeout),  *)
(* called by thread t.                                                     *)
(***************************************************************************)
\* StdioMCPClient.initialize, after `init_id = self.send_request(...)` returned
\* id: `response = self.get_response(init_id)` starts
AfterSend(thr, id) ==
    IF thr.outer = "initialize"
    THEN [ThreadIdle EXCEPT !.outer = "initialize", !.call = "get", !.pc = "get_loop", !.rid = id]
    ELSE ThreadIdle

\* a variant of initialize that sends the notification whatever get_response returned
AfterGet_NotifyAlways(thr) ==
    IF thr.outer = "initialize"
    THEN [ThreadIdle EXCEPT !.outer = "initialize", !.call = "notify", !.pc = "send_write"]
    ELSE ThreadIdle

\* StdioMCPClient.initialize, after get_response returned: `if response is
\* not None: self.send_notification("notifications/initialized", {})`, else
\* `return response`
AfterGet(thr) ==
    IF thr.outer = "initialize" /\ thr.response # <<>>
    THEN [ThreadIdle EXCEPT !.outer = "initialize", !.call = "notify", !.pc = "send_write"]
    ELSE ThreadIdle

\* StdioMCPClient.initialize, after send_notification returned: time.sleep(5)
AfterNotify(thr) ==
    IF thr.outer = "initialize"
    THEN [ThreadIdle EXCEPT !.outer = "initialize", !.pc = "init_sleep"]
    ELSE ThreadIdle

\* everything of the client that get_response leaves alone
GetFrame ==
    UNCHANGED <<request_id, client_initialized, stdout_pipe, produced, stdin_wire, stdin_lock,
                enqueued, issued>>

\* response.get("id") == request_id
Matches_Any(response, rid) == TRUE

Matches(response, rid) == response.id = rid

\* what a call returned: the request_id it was given and None (<<>>) or the message
Returned(rid, response) == [rid |-> rid, response |-> response]

\* the call starts: start_time = time.time(); temp_queue = []
GetStart(t) ==
    /\ th[t].pc = "idle"
    /\ CanCall
    /\ calls' = calls + 1
    /\ \E rid \in {1, 2} :
         th' = [th EXCEPT ![t] = [ThreadIdle EXCEPT !.call = "get", !.pc = "get_loop",
                                                    !.rid = rid]]
    /\ UNCHANGED <<response_queue, returned>>
    /\ GetFrame /\ ClientFrame

\* response_queue.get(timeout=1) raises queue.Empty after one second: pass;
\* the while condition fails once the timeout has elapsed
GetEmpty(t) ==
    /\ th[t].pc = "get_loop"
    /\ response_queue = <<>>
    /\ th' = [th EXCEPT ![t].clock = th[t].clock + 1,
                         ![t].pc = IF th[t].clock + 1 >= TimeoutTicks
                                   THEN "get_putback" ELSE "get_loop"]
    /\ UNCHANGED <<response_queue, calls, returned>>
    /\ GetFrame /\ ClientFrame

\* response_queue.get(timeout=1) returns the oldest message, which is no dict
\* (a list, a number, a string): response.get raises AttributeError, which
\* get_response does not catch; the call ends and its locals, temp_queue and
\* response, are gone
GetRaise(t) ==
    /\ th[t].pc = "get_loop"
    /\ response_queue # <<>>
    /\ Head(response_queue).kind = "nonobject"
    /\ response_queue' = Tail(response_queue)
    /\ th' = [th EXCEPT ![t] = ThreadIdle]
    /\ UNCHANGED <<calls, returned>>
    /\ GetFrame /\ ClientFrame

\* the oldest message is taken and its id equals request_id: the buffered
\* messages are to be put back
GetMatch(t) ==
    /\ th[t].pc = "get_loop"
    /\ response_queue # <<>>
    /\ Head(response_queue).kind = "object"
    /\ Matches(Head(response_queue), th[t].rid)
    /\ response_queue' = Tail(response_queue)
    /\ th' = [th EXCEPT ![t].response = <<Head(response_queue)>>, ![t].pc = "get_putback"]
    /\ UNCHANGED <<calls, returned>>
    /\ GetFrame /\ ClientFrame

\* the oldest message is taken and its id differs: temp_queue.append(response)
GetKeep(t) ==
    /\ th[t].pc = "get_loop"
    /\ response_queue # <<>>
    /\ Head(response_queue).kind = "object"
    /\ ~Matches(Head(response_queue), th[t].rid)
    /\ response_queue' = Tail(response_queue)
    /\ th' = [th EXCEPT ![t].temp_queue = Append(th[t].temp_queue, Head(response_queue))]
    /\ UNCHANGED <<calls, returned>>
    /\ GetFrame /\ ClientFrame

\* `for item in temp_queue: self.response_queue.put(item)`, one item
GetPutBack(t) ==
    /\ th[t].pc = "get_putback"
    /\ th[t].temp_queue # <<>>
    /\ QueueCanPut(response_queue)
    /\ response_queue' = Append(response_queue, Head(th[t].temp_queue))
    /\ th' = [th EXCEPT ![t].temp_queue = Tail(th[t].temp_queue)]
    /\ UNCHANGED <<calls, returned>>
    /\ GetFrame /\ ClientFrame

\* a variant that returns without the put-back loop having emptied temp_queue
GetReturn_DropBuffered(t) ==
    /\ th[t].pc = "get_putback"
    /\ returned' = Append(returned, Returned(th[t].rid, th[t].response))
    /\ th' = [th EXCEPT ![t] = ThreadIdle]
    /\ UNCHANGED <<response_queue, calls>>
    /\ GetFrame /\ ClientFrame

\* `return response` after a match, `return None` after the timeout
GetReturn(t) ==
    /\ th[t].pc = "get_putback"
    /\ th[t].temp_queue = <<>>
    /\ returned' = Append(returned, Returned(th[t].rid, th[t].response))
    /\ th' = [th EXCEPT ![t] = AfterGet(th[t])]
    /\ UNCHANGED <<response_queue, calls>>
    /\ GetFrame /\ ClientFrame

(***************************************************************************)
(* tests/mcp_client.py: StdioMCPClient.send_request and send_notification, *)
(* called by thread t.  `self.request_id += 1` is a load, an add and a     *)
(* store, and other threads run between them.  process.stdin is a text     *)
(* stream over an io.BufferedWriter, whose write and flush hold the        *)
(* writer's lock while the bytes of one call go to the pipe, in one piece  *)
(* or in several.                                                          *)
(***************************************************************************)
SendFrame ==
    UNCHANGED <<client_initialized, response_queue, stdout_pipe, produced, enqueued, returned>>

\* one piece of a message on the pipe: who wrote it, the id in it, and
\* whether it is the message's first part or its last (with the newline)
Piece(t, id, part) == [by |-> t, id |-> id, part |-> part]

\* the writer's lock can be taken
StdinFree_NoLock(lock) == TRUE

StdinFree(lock) == lock = "free"

\* self.request_id += 1, the load
SendLoad(t) ==
    /\ th[t].pc = "idle"
    /\ CanCall
    /\ calls' = calls + 1
    /\ th' = [th EXCEPT ![t] = [ThreadIdle EXCEPT !.call = "request", !.pc = "send_store",
                                                    !.tmp = request_id]]
    /\ UNCHANGED <<request_id, stdin_wire, stdin_lock, issued>>
    /\ SendFrame /\ ClientFrame

\* self.request_id += 1, the store
SendStore(t) ==
    /\ th[t].pc = "send_store"
    /\ request_id' = th[t].tmp + 1
    /\ th' = [th EXCEPT ![t].pc = "send_build"]
    /\ UNCHANGED <<stdin_wire, stdin_lock, calls, issued>>
    /\ SendFrame /\ ClientFrame

\* request = {..., "id": self.request_id, ...}; request_json = json.dumps(request) + '\n'
SendBuild(t) ==
    /\ th[t].pc = "send_build"
    /\ th' = [th EXCEPT ![t].rid = request_id, ![t].pc = "send_write"]
    /\ UNCHANGED <<request_id, stdin_wire, stdin_lock, calls, issued>>
    /\ SendFrame /\ ClientFrame

\* send_notification: the request has no id
NotifyBuild(t) ==
    /\ th[t].pc = "idle"
    /\ CanCall
    /\ calls' = calls + 1
    /\ th' = [th EXCEPT ![t] = [ThreadIdle EXCEPT !.call = "notify", !.pc = "send_write"]]
    /\ UNCHANGED <<request_id, stdin_wire, stdin_lock, issued>>
    /\ SendFrame /\ ClientFrame

\* self.process.stdin.write(request_json): the first bytes reach the pipe
StdinWriteBegin(t) ==
    /\ th[t].pc = "send_write"
    /\ StdinFree(stdin_lock)
    /\ stdin_lock' = t
    /\ stdin_wire' = Append(stdin_wire, Piece(t, th[t].rid, "head"))
    /\ th' = [th EXCEPT ![t].pc = "send_writing"]
    /\ UNCHANGED <<request_id, calls, issued>>
    /\ SendFrame /\ ClientFrame

\* the rest of the message reaches the pipe; self.process.stdin.flush();
\* send_notification ends here
StdinWriteEnd(t) ==
    /\ th[t].pc = "send_writing"
    /\ stdin_lock' = "free"
    /\ stdin_wire' = Append(stdin_wire, Piece(t, th[t].rid, "tail"))
    /\ th' = [th EXCEPT ![t] = IF th[t].call = "request"
                                THEN [th[t] EXCEPT !.pc = "send_return"]
                                ELSE AfterNotify(th[t])]
    /\ UNCHANGED <<request_id, calls, issued>>
    /\ SendFrame /\ ClientFrame

\* send_request: `return self.request_id`
SendReturn(t) ==
    /\ th[t].pc = "send_return"
    /\ issued' = Append(issued, [id |-> request_id, sent |-> th[t].rid])
    /\ th' = [th EXCEPT ![t] = AfterSend(th[t], request_id)]
    /\ UNCHANGED <<request_id, stdin_wire, stdin_lock, calls>>
    /\ SendFrame /\ ClientFrame

(***************************************************************************)
(* One StdioMCPClient, its reader thread, the caller threads and the       *)
(* server process at the other end of the pipes.                           *)
(***************************************************************************)
InitClient ==
    /\ server = "client"
    /\ initialized = FALSE
    /\ req_id = "unbound"
    /\ pc = "running"
    /\ dirs = 0
    /\ last = NoLine
    /\ req_origin = "none"
    /\ ex = ExIdle
    /\ io = IoOff
    /\ ClientIdle

NextClient ==
    \/ ServerWritesLine
    \/ ReadStdout
    \/ \E t \in Threads : GetStart(t)
    \/ \E t \in Threads : GetEmpty(t)
    \/ \E t \in Threads : GetRaise(t)
    \/ \E t \in Threads : GetMatch(t)
    \/ \E t \in Threads : GetKeep(t)
    \/ \E t \in Threads : GetPutBack(t)
    \/ \E t \in Threads : GetReturn(t)
    \/ \E t \in Threads : SendLoad(t)
    \/ \E t \in Threads : SendStore(t)
    \/ \E t \in Threads : SendBuild(t)
    \/ \E t \in Threads : NotifyBuild(t)
    \/ \E t \in Threads : StdinWriteBegin(t)
    \/ \E t \in Threads : StdinWriteEnd(t)
    \/ \E t \in Threads : SendReturn(t)

SpecClient == InitClient /\ [][NextClient]_vars

\* initialize() is entered by one caller at a time
NoOtherCaller(t) == \A u \in Threads \ {t} : th[u].pc = "idle"

\* StdioMCPClient.initialize: `if self.initialized: return`
InitializeSkip(t) ==
    /\ th[t].pc = "idle"
    /\ NoOtherCaller(t)
    /\ CanCall
    /\ client_initialized
    /\ calls' = calls + 1
    /\ UNCHANGED <<request_id, client_initialized, response_queue, stdout_pipe, produced,
                   stdin_wire, stdin_lock, th, enqueued, returned, issued>>
    /\ ClientFrame

\* StdioMCPClient.initialize while not initialized:
\* `init_id = self.send_request("initialize", params)` begins (the load of
\* self.request_id += 1)
InitializeSend(t) ==
    /\ th[t].pc = "idle"
    /\ NoOtherCaller(t)
    /\ CanCall
    /\ ~client_initialized
    /\ calls' = calls + 1
    /\ th' = [th EXCEPT ![t] = [ThreadIdle EXCEPT !.outer = "initialize", !.call = "request",
                                                    !.pc = "send_store", !.tmp = request_id]]
    /\ UNCHANGED <<request_id, stdin_wire, stdin_lock, issued>>
    /\ SendFrame /\ ClientFrame

\* StdioMCPClient.initialize: after time.sleep(5), `self.initialized = True`
\* and `return response`
InitializeSet(t) ==
    /\ th[t].pc = "init_sleep"
    /\ client_initialized' = TRUE
    /\ th' = [th EXCEPT ![t] = ThreadIdle]
    /\ UNCHANGED <<request_id, response_queue, stdout_pipe, produced, stdin_wire, stdin_lock,
                   calls, enqueued, returned, issued>>
    /\ ClientFrame

\* the client with callers that only perform the handshake
NextHandshake ==
    \/ ServerWritesLine
    \/ ReadStdout
    \/ \E t \in Threads : InitializeSkip(t)
    \/ \E t \in Threads : InitializeSend(t)
    \/ \E t \in Threads : SendStore(t)
    \/ \E t \in Threads : SendBuild(t)
    \/ \E t \in Threads : StdinWriteBegin(t)
    \/ \E t \in Threads : StdinWriteEnd(t)
    \/ \E t \in Threads : SendReturn(t)
    \/ \E t \in Threads : GetEmpty(t)
    \/ \E t \in Threads : GetRaise(t)
    \/ \E t \in Threads : GetMatch(t)
    \/ \E t \in Threads : GetKeep(t)
    \/ \E t \in Threads : GetPutBack(t)
    \/ \E t \in Threads : GetReturn(t)
    \/ \E t \in Threads : InitializeSet(t)

SpecHandshake == InitClient /\ [][NextHandshake]_vars

\* a step of thread t inside get_response
GetStep(t) ==
    \/ GetEmpty(t)
    \/ GetRaise(t)
    \/ GetMatch(t)
    \/ GetKeep(t)
    \/ GetPutBack(t)
    \/ GetReturn(t)

\* the client with callers that only await responses (the send methods share
\* nothing with get_response)
NextAwait ==
    \/ ServerWritesLine
    \/ ReadStdout
    \/ \E t \in Threads : GetStart(t)
    \/ \E t \in Threads : GetEmpty(t)
    \/ \E t \in Threads : GetRaise(t)
    \/ \E t \in Threads : GetMatch(t)
    \/ \E t \in Threads : GetKeep(t)
    \/ \E t \in Threads : GetPutBack(t)
    \/ \E t \in Threads : GetReturn(t)

\* that client with threads that keep running: a thread inside get_response
\* is scheduled again and again, and response_queue.get(timeout=1) comes back
\* within its second
SpecClientFair ==
    InitClient /\ [][NextAwait]_vars /\ \A t \in Threads : WF_vars(GetStep(t))

(***************************************************************************)
(* The characters written to stdout.  A stream is a sequence over "json"   *)
(* (the text json.dumps returns, which holds no raw newline) and "nl" (one *)
(* newline character).                                                     *)
(***************************************************************************)
\* print(text, flush=True): the text, then print's own end="\n"
print_flush(text) == text \o <<"nl">>

\* send_response of the three server scripts: print(json.dumps(response), flush=True)
main_write(msg) == print_flush(<<"json">>)

\* send_response / send_error of enhanced_mcp_server.py:
\* print(json.dumps(response) + '\n', flush=True)
enhanced_write(msg) == print_flush(<<"json">> \o <<"nl">>)

RECURSIVE Stdout(_, _)
\* what writing the messages `out` one after the other puts on stdout of server s
Stdout(out, s) ==
    IF out = <<>> THEN <<>>
    ELSE (IF s \in EnhancedServers THEN enhanced_write(Head(out)) ELSE main_write(Head(out)))
         \o Stdout(Tail(out), s)

\* the stream holds an empty line: a newline at its start or right after another
HasEmptyLine(stream) ==
    \E i \in DOMAIN stream : stream[i] = "nl" /\ (i = 1 \/ stream[i - 1] = "nl")

(***************************************************************************)
(* Properties of the main loops (specification Spec).                      *)
(***************************************************************************)
\* the Responses written for the last line are exactly one error with this code and id
AnsweredWithError(code, id) ==
    /\ Len(last.out) = 1
    /\ last.out[1].kind = "error"
    /\ last.out[1].code = code
    /\ last.out[1].id = id

\* the last line was a tools/call with object params, handled after initialize
CalledTool ==
    /\ last.kind = "object"
    /\ last.init
    /\ last.method = "tools/call"
    /\ last.shape = "dict"

\* C1: request/response cardinality.  Every Request line (an object with an
\* id and a method other than the initialized notification's) is answered by
\* exactly one Response carrying its id, and no Response written for any
\* other line carries the id of a Request.
C1_ExactlyOneResponsePerRequest ==
    /\ (IsRequest(last) /\ last.method # "initialized") =>
         Cardinality({k \in DOMAIN last.out : last.out[k].id = last.id}) = 1
    /\ \A k \in DOMAIN last.out :
         (req_origin = "request" /\ last.out[k].id = req_id) => last.kind = "object"

C3_LoopSurvivesEveryLine == pc # "crashed"

\* C6: after initialize, a tools/call whose name is not advertised by
\* tools/list is answered with error -32601, whatever the environment.
C6_UnknownToolIsMethodNotFound ==
    (CalledTool /\ last.tool = "no_such_tool")
        => AnsweredWithError(METHOD_NOT_FOUND, last.id)

\* C7: after initialize, a tools/call of a registered keytool or signer tool
\* that omits a required argument is answered with error -32602 and spawns
\* no subprocess (stated for the runs in which the wrapped binary is installed).
C7_MissingRequiredIsInvalidParams ==
    (CalledTool /\ server \in {"keytool", "signer"}
        /\ last.tool \in Registered(server) /\ last.missing # "none" /\ last.avail # "no")
        => (AnsweredWithError(INVALID_PARAMS, last.id) /\ last.spawned = 0)

\* C8: a tools/call rejected with -32602 had no side effect: no subprocess
\* was spawned and no directory was created while handling it.
C8_RejectionHasNoSideEffect ==
    \A k \in DOMAIN last.out :
        (last.out[k].kind = "error" /\ last.out[k].code = INVALID_PARAMS)
            => (last.spawned = 0 /\ last.created = 0)

\* C11: when the subprocess of a tools/call exits with a non-zero status,
\* the request is answered with a result whose isError is true, never with a
\* JSON-RPC error.
C11_NonZeroExitIsResultWithIsError ==
    (CalledTool /\ last.run \in ExitedNonZero)
        => /\ Len(last.out) = 1
           /\ last.out[1].kind = "result"
           /\ last.out[1].isError
           /\ last.out[1].id = last.id

\* the last line was a tools/call whose subprocess outlived its timeout or
\* could not be spawned
CallFailedToRun == CalledTool /\ last.run \in {"timeout", "oserror"}

\* C12: a subprocess timeout or spawn failure during tools/call is answered
\* with exactly one error -32000 carrying the request's id, leaves the server
\* initialized and does not end its loop (only EOF does), and a tools/list
\* read as the next line is answered with its result.
C12_FailedRunIsNotFatal ==
    /\ [](CallFailedToRun =>
            /\ AnsweredWithError(EXECUTION_ERROR, last.id)
            /\ initialized
            /\ pc # "crashed")
    /\ [][(CallFailedToRun /\ last'.kind = "object" /\ last'.method = "tools/list")
            => /\ Len(last'.out) = 1
               /\ last'.out[1].kind = "result"
               /\ last'.out[1].payload = "tools"
               /\ last'.out[1].id = last'.id]_vars

\* a tools/call of a request with an id ended in a timeout and was answered
C12_Witness ==
    /\ CallFailedToRun
    /\ last.run = "timeout"
    /\ last.id \in Ids
    /\ AnsweredWithError(EXECUTION_ERROR, last.id)

\* C13: a Notification (an object with a method and no id) never makes the
\* server write a Response, whatever its method and whether it arrives
\* before or after initialize.
C13_NotificationGetsNoResponse ==
    (last.kind = "object" /\ last.id = NoId /\ last.method # "none") => last.out = <<>>

\* C14: a blank input line is skipped silently: nothing is written for it
\* and the loop does not end because of it.
C14_BlankLineIsSkipped ==
    last.kind = "blank" => (last.out = <<>> /\ pc # "crashed")

\* C23: the initialized flag.  It changes only while a line whose method is
\* initialize is handled, and then from false to true with the handshake
\* result written; no other line (tools/list, tools/call, the initialized
\* notification, a malformed line, a failed or timed-out tool call) changes
\* it, and once true it is never false again.
C23_InitializedOnlySetByInitialize ==
    [][/\ initialized => initialized'
       /\ (initialized' # initialized) =>
             /\ last'.kind = "object"
             /\ last'.method = "initialize"
             /\ Len(last'.out) = 1
             /\ last'.out[1].kind = "result"
             /\ last'.out[1].payload = "handshake"]_vars

\* the flag is still true after a tool call that timed out
C23_Witness ==
    /\ initialized
    /\ CalledTool
    /\ last.run = "timeout"

\* C24: a repeated initialize.  A line with method initialize that arrives
\* when the server is already initialized is answered like the first one,
\* with one Response carrying its id and the handshake result; the loop
\* does not crash and the server is still initialized.
C24_RepeatedInitializeIsNormalHandshake ==
    (last.kind = "object" /\ last.method = "initialize")
        => /\ last.out = <<send_response(last.id, Result("handshake", FALSE), <<>>)>>
           /\ last.spawned = 0 /\ last.created = 0 /\ last.net = 0
           /\ initialized
           /\ pc # "crashed"

\* an initialize request was answered when the server was already initialized
C24_Witness ==
    /\ IsRequest(last)
    /\ last.method = "initialize"
    /\ last.init
    /\ Len(last.out) = 1
    /\ last.out[1].payload = "handshake"

\* C25: tools/list.  After initialize every line with method tools/list,
\* whatever its params, is answered with one result carrying the server's
\* tool list (the same literal every time) and never with an error; and
\* every tool name for which tools/call reaches a tool's handler (it answers
\* with a result or rejects the tool's arguments) is a member of that list.
C25_ToolsListAlwaysSucceeds ==
    /\ (last.kind = "object" /\ last.init /\ last.method = "tools/list")
         => /\ last.out = <<send_response(last.id, Result("tools", FALSE), <<>>)>>
            /\ pc # "crashed"
    /\ (CalledTool /\ Len(last.out) = 1
           /\ (last.out[1].kind = "result" \/ last.out[1].code = INVALID_PARAMS))
         => \E i \in DOMAIN ToolList(server) : ToolList(server)[i] = last.tool

\* a tools/list request whose params are not an object was answered with the list
C25_Witness ==
    /\ IsRequest(last) /\ last.init
    /\ last.method = "tools/list"
    /\ last.shape # "dict"
    /\ Len(last.out) = 1
    /\ last.out[1].kind = "result"
    /\ last.out[1].payload = "tools"

\* C26: unknown method.  After initialize, a Request whose method is none of
\* initialize, initialized, tools/list, tools/call is answered with exactly
\* one error of code -32601 whose message quotes that method; nothing is
\* spawned, created or fetched for it.
C26_UnknownMethodIsNamed ==
    (IsRequest(last) /\ last.init
       /\ last.method \notin {"initialize", "initialized", "tools/list", "tools/call"})
        => /\ AnsweredWithError(METHOD_NOT_FOUND, last.id)
           /\ last.out[1].quoted = <<last.method>>
           /\ last.spawned = 0 /\ last.created = 0 /\ last.net = 0

\* bogus/method was rejected after initialize
C26_Witness ==
    /\ IsRequest(last) /\ last.init
    /\ last.method = "bogus/method"
    /\ AnsweredWithError(METHOD_NOT_FOUND, last.id)
    /\ last.out[1].quoted = <<"bogus/method">>

\* C27: the not-initialized error names the method.  The -32002 error written
\* for a Request received before initialize quotes the method of that Request.
C27_NotInitializedErrorNamesMethod ==
    (IsRequest(last) /\ ~last.init /\ AnsweredWithError(NOT_INITIALIZED, last.id))
        => last.out[1].quoted = <<last.method>>

\* C29: every tools/call completes.  Whatever the spawned program does, the
\* handling of a tools/call after initialize ends with a Response written
\* and the loop back at its read: the loop is never stuck inside a call.
C29_EveryToolCallCompletes ==
    (last.kind = "object" /\ last.init /\ last.method = "tools/call")
        => (pc # "blocked" /\ Len(last.out) >= 1)

\* C30: loop exit.  The loop ends only when a read returns EOF, and that
\* step writes nothing: no line that is read ends the loop.
C30_LoopExitsOnlyOnEOF ==
    [][(pc = "running" /\ pc' \in {"exited", "crashed"})
         => (pc' = "exited" /\ last' = last)]_vars

\* C31: the request of the keytool and signer tests.  An object with an id
\* and params but no method, read before any initialize, is answered with
\* one result for that id that reports the execution of the command
\* (exitCode and output).
C31_BareArgsRequestIsExecuted ==
    (last.kind = "object" /\ last.id \in Ids /\ last.method = "none" /\ ~last.init)
        => /\ Len(last.out) = 1
           /\ last.out[1].kind = "result"
           /\ last.out[1].id = last.id
           /\ last.out[1].payload = "execution"

\* C32: no stale id.  Whatever is written for a line that is malformed JSON
\* or a JSON value that is no object does not carry the id of a request:
\* such a line has no id of its own, so its Response can only carry null.
C32_UndecodableLineDoesNotReuseId ==
    last.kind \in {"malformed", "nonobject"}
        => \A k \in DOMAIN last.out : last.out[k].id = NoId

\* C36: isError mirrors the exit status.  In the keytool and signer servers,
\* a tools/call whose wrapped command was spawned and exited within the
\* timeout is answered with one result whose isError is true exactly when
\* the exit status is not 0.
C36_IsErrorMirrorsExitStatus ==
    (/\ CalledTool
     /\ server \in {"keytool", "signer"}
     /\ last.run \in {"exit_zero", "exit_nonzero", "undecodable_zero", "undecodable_nonzero"})
        => /\ Len(last.out) = 1
           /\ last.out[1].kind = "result"
           /\ last.out[1].isError = (last.run \in ExitedNonZero)

(***************************************************************************)
(* Properties of the process executor (specification SpecExec).            *)
(***************************************************************************)
\* C9: when the child has not exited within the timeout, the call returns
\* exitCode -1 with error "timeout", and at that moment the child is no
\* longer running.
C9_TimeoutKillsChild ==
    (ex.pc = "done" /\ ex.expired)
        => /\ ex.result.exitCode = -1
           /\ ex.result.error = "timeout"
           /\ ex.child = "reaped"

\* a call returned after its deadline passed with the child still running
C9_Witness == ex.pc = "done" /\ ex.expired /\ ex.clock = DefaultTimeout

\* C10: a spawn failure returns exitCode -2 with the error tag
\* "spawn-failure"; a child that exits with status n returns exitCode n with
\* no error key; the three outcomes can be told apart from the result.
C10_OutcomesAreTagged ==
    (ex.pc = "done" /\ ~ex.raised) =>
        /\ ex.spawn_failed => (ex.result.exitCode = -2 /\ ex.result.error = "spawn-failure")
        /\ (ex.child = "reaped" /\ ~ex.expired)
             => (ex.result.exitCode = ex.status /\ ex.result.error = "absent")
        /\ ex.expired => ex.result.error = "timeout"

(***************************************************************************)
(* Properties of the enhanced wrapper loops (specification SpecEnhanced).  *)
(***************************************************************************)
\* C4: a line that cannot be decoded as JSON yields no Response line.
C4_UndecodableLineWritesNothing == last.kind = "malformed" => last.out = <<>>

\* C5: an error Response for a request whose id was parsed carries that id.
C5_ErrorCarriesRequestId ==
    (last.kind = "object" /\ last.id \in Ids)
        => \A k \in DOMAIN last.out :
              last.out[k].kind = "error" => last.out[k].id = last.id

\* C15: every message written to stdout is the serialized JSON followed by
\* exactly one newline, so the stream written for a line holds no empty line
\* and ends with a newline whenever it is not empty.
C15_OneLinePerMessage ==
    LET stream == Stdout(last.out, server) IN
    /\ ~HasEmptyLine(stream)
    /\ stream # <<>> => stream[Len(stream)] = "nl"

\* C33: nothing runs before initialize.  As long as no initialize has been
\* processed on the connection, handling a line spawns no subprocess and
\* starts no download.
C33_NothingRunsBeforeInitialize ==
    ~initialized => (last.spawned = 0 /\ last.net = 0)

\* the line fails the envelope check, or (keytool and signer wrappers) passes
\* it with a params.args that is not a list
RejectedEnvelope(rec, s) ==
    /\ rec.kind = "object"
    /\ \/ rec.jsonrpc = "absent"
       \/ rec.id = "absent"
       \/ rec.jsonrpc # "2.0"
       \/ (s # "enhanced_downloader" /\ rec.params = "args_not_list")

\* C38: envelope validation in the wrappers.  A decoded request that lacks
\* jsonrpc or id, or whose jsonrpc is not "2.0", or whose params.args is not
\* a list, is answered with exactly one error -32602 carrying its id (null
\* when it has none); no subprocess is spawned and no download started for
\* it, and the loop is running afterwards.
C38_EnvelopeIsValidatedBeforeExecuting ==
    /\ [](RejectedEnvelope(last, server) =>
            /\ last.out = <<send_error(GetId(last), INVALID_PARAMS)>>
            /\ last.spawned = 0 /\ last.net = 0)
    /\ [][(last' # last /\ RejectedEnvelope(last', server')) => pc' = "running"]_vars

\* a request with a valid envelope whose args is a string was rejected by the
\* keytool wrapper
C38_Witness ==
    /\ server = "enhanced_keytool"
    /\ last.kind = "object"
    /\ last.jsonrpc = "2.0" /\ last.id \in Ids
    /\ last.params = "args_not_list"
    /\ last.out = <<send_error(last.id, INVALID_PARAMS)>>
    /\ last.spawned = 0
    /\ pc = "running"

(***************************************************************************)
(* Properties of the client StdioMCPClient (specification SpecClient).     *)
(***************************************************************************)
\* C16: get_response(request_id) returns None or a message whose id equals
\* request_id, never a message with another id.
C16_ReturnsOnlyMatchingResponse ==
    \A k \in DOMAIN returned :
        returned[k].response # <<>> =>
            /\ returned[k].response[1].kind = "object"
            /\ returned[k].response[1].id = returned[k].rid

\* the response for id 2 was written before the one for id 1; get_response(1)
\* returned the id-1 response and then get_response(2) returned the id-2 response
C16_Witness ==
    /\ Len(returned) = 2
    /\ returned[1] = Returned(1, <<[n |-> 2, kind |-> "object", id |-> 1]>>)
    /\ returned[2] = Returned(2, <<[n |-> 1, kind |-> "object", id |-> 2]>>)

\* how many times message m is in the queue, and how many times it was returned
TimesQueued(m) == Cardinality({i \in DOMAIN response_queue : response_queue[i] = m})

TimesReturned(m) == Cardinality({k \in DOMAIN returned : returned[k].response = <<m>>})

\* no get_response call is in progress
NoGetRunning == \A t \in Threads : th[t].call # "get"

\* C17: conservation.  Whenever no get_response call is in progress, every
\* message the reader has enqueued is either in response_queue or was
\* returned by exactly one get_response call: none is lost, none is
\* duplicated, none is returned twice.
C17_NoMessageLostOrDuplicated ==
    NoGetRunning => \A m \in enqueued : TimesQueued(m) + TimesReturned(m) = 1

C19_RequestIdsAreUnique ==
    /\ \A i, j \in DOMAIN issued : i # j => issued[i].id # issued[j].id
    /\ \A i, j \in DOMAIN stdin_wire :
          (i # j /\ stdin_wire[i].part = "head" /\ stdin_wire[j].part = "head"
             /\ stdin_wire[i].id # CNone)
            => stdin_wire[i].id # stdin_wire[j].id

\* C20: the reader is never held up: whenever the server has written a line
\* that is not read yet, the reader's step can be taken, whatever the queue
\* holds and wherever the callers are.
C20_ReaderNeverBlocked == stdout_pipe # <<>> => ENABLED ReadStdout

\* a caller waits in get_response, the queue already holds a message, and
\* the reader has a decodable line to enqueue
C20_Witness ==
    /\ \E t \in Threads : th[t].pc = "get_loop"
    /\ response_queue # <<>>
    /\ stdout_pipe # <<>>
    /\ Head(stdout_pipe).kind = "object"

\* no call has ended by an exception: every non-object value the reader
\* enqueued is still in the queue
NoGetRaised ==
    \A m \in enqueued : m.kind = "nonobject" => TimesQueued(m) = 1

C34_HeldResponseIsBackBeforeDeadline ==
    [][\A t \in Threads :
         (th[t].pc = "get_loop" /\ th'[t].pc = "get_putback" /\ th'[t].response = <<>>)
           => \A u \in Threads \ {t} :
                (/\ th[u].pc = "get_loop"
                 /\ th[u].rid # th[t].rid
                 /\ \E m \in enqueued : m.kind = "object" /\ m.id = th[u].rid)
                  => \A i \in DOMAIN th[u].temp_queue :
                        th[u].temp_queue[i].id # th[t].rid]_vars

\* C35: arrival order.  Whenever no get_response call is in progress, the
\* messages in response_queue are in the order in which the reader enqueued
\* them (n is the position of a message's line on the server's stdout).
C35_QueueKeepsArrivalOrder ==
    NoGetRunning =>
        \A i, j \in DOMAIN response_queue : i < j => response_queue[i].n < response_queue[j].n

(***************************************************************************)
(* Properties of the client's handshake (specification SpecHandshake).     *)
(***************************************************************************)
\* initialized notifications whose first bytes are on the server's stdin
NotificationsBegun ==
    Cardinality({i \in DOMAIN stdin_wire :
                   stdin_wire[i].id = CNone /\ stdin_wire[i].part = "head"})

\* initialize requests that are completely on the server's stdin
RequestsSent ==
    Cardinality({i \in DOMAIN stdin_wire :
                   stdin_wire[i].id # CNone /\ stdin_wire[i].part = "tail"})

\* get_response calls of initialize() that returned a message
ResponsesReceived == Cardinality({k \in DOMAIN returned : returned[k].response # <<>>})

\* no initialize() call is in progress
NoInitializeRunning == \A t \in Threads : th[t].pc = "idle"

\* C22: handshake ordering.  initialize() writes the initialized
\* notification only after get_response has returned the message that
\* carries the id of a request it has sent, and self.initialized is true
\* only after that notification was written; while every call so far has
\* timed out (or raised) nothing but one fresh initialize request per call
\* is on the wire and the client is uninitialized; once self.initialized is
\* true it stays true and nothing more is written.
C22_HandshakeOrdering ==
    /\ [](NotificationsBegun <= ResponsesReceived)
    /\ [](\A k \in DOMAIN returned :
             returned[k].response # <<>> =>
               /\ returned[k].response[1].id = returned[k].rid
               /\ \E i \in DOMAIN stdin_wire :
                     stdin_wire[i].id = returned[k].rid /\ stdin_wire[i].part = "tail")
    /\ [](client_initialized =>
             /\ ResponsesReceived >= 1
             /\ \E i \in DOMAIN stdin_wire :
                   stdin_wire[i].id = CNone /\ stdin_wire[i].part = "tail")
    /\ []((NoInitializeRunning /\ ~client_initialized) =>
             /\ ResponsesReceived = 0
             /\ NotificationsBegun = 0
             /\ RequestsSent = calls
             /\ \A i, j \in DOMAIN stdin_wire :
                   (i # j /\ stdin_wire[i].part = "tail" /\ stdin_wire[j].part = "tail")
                     => stdin_wire[i].id # stdin_wire[j].id)
    /\ [][client_initialized => (client_initialized' /\ stdin_wire' = stdin_wire)]_vars

\* the first initialize() timed out, the second one sent request 2, received
\* its response, notified the server and set self.initialized
C22_Witness ==
    /\ client_initialized
    /\ Len(returned) = 2
    /\ returned[1] = Returned(1, <<>>)
    /\ returned[2].rid = 2
    /\ returned[2].response # <<>>
    /\ NotificationsBegun = 1
    /\ RequestsSent = 2

(***************************************************************************)
(* Properties of a connection's transcript (specification SpecSequence).   *)
(***************************************************************************)
\* C28: per-connection sequencing.  In the transcript of reads and writes,
\* every Response written for the k-th line comes after the read of line k
\* and before the read of line k+1: the events are ordered by line, so one
\* line at a time is being handled and the Responses are on stdout in the
\* order in which their requests were read.
C28_OneMessageAtATime ==
    /\ \A i, j \in DOMAIN io.log : i < j => io.log[i].line <= io.log[j].line
    /\ \A j \in DOMAIN io.log :
          (io.log[j].ev = "write" /\ io.log[j].line > 0)
            => \E i \in 1..(j - 1) : io.log[i] = [ev |-> "read", line |-> io.log[j].line]

\* two requests were read and answered, one after the other
C28_Witness ==
    /\ Len(io.log) >= 4
    /\ io.log[1] = [ev |-> "read", line |-> 1]
    /\ io.log[2] = [ev |-> "write", line |-> 1]
    /\ io.log[3] = [ev |-> "read", line |-> 2]
    /\ io.log[4] = [ev |-> "write", line |-> 2]

\* C37: the last message before EOF.  When the client has written a final
\* message without a newline and closed stdin, the loop does not exit before
\* it has read that message; the message is handled by the same iteration as
\* any line and its Responses, if any, are written; after that the only step
\* is the exit on EOF, which writes nothing.
C37_UnterminatedLastMessageIsHandled ==
    /\ [](pc = "exited" => io.final # "pending")
    /\ [](io.final = "read" =>
            /\ io.lines >= 1
            /\ Len(io.log) >= 1 + Len(last.out)
            /\ SubSeq(io.log, Len(io.log) - Len(last.out), Len(io.log))
                 = Events(io.lines, last.out))
    /\ [][io.final = "read" => (pc' = "exited" /\ io' = io /\ last' = last)]_vars

\* the request of the tests (an id, no method, no newline) was read by a main
\* loop as its only line, answered, and the loop then ended on EOF
C37_Witness ==
    /\ server \in MainServers
    /\ io.final = "read"
    /\ io.lines = 1
    /\ last.kind = "object" /\ last.id \in Ids /\ last.method = "none"
    /\ Len(last.out) = 1
    /\ io.log = Events(1, last.out)
    /\ pc = "exited"
====
